---- MODULE Spec2Model ----
(***************************************************************************)
(* Model of the dwz-mcp short-URL client: one tool invocation travelling   *)
(* through the tool handler (ErrorHandler.asyncWrapper), the service       *)
(* operation (ShortLinkService), the retrying HTTP executor                *)
(* (executeWithRetry) and the error classifier (ErrorHandler.handle).      *)
(* The remote service is the environment: the variable remote holds the    *)
(* answer it gives to the next HTTP request it receives.                   *)
(***************************************************************************)
EXTENDS Integers, Sequences, FiniteSets, TLC

VARIABLES
    maxRetries,   \* DEFAULT_CONFIG.MAX_RETRIES, read once from the environment
    pc,           \* position of the process: boot, starting, refused (start-up);
                  \* idle, inflight, backoff, done (one invocation)
    tool,         \* name of the tool being invoked
    args,         \* arguments object handed to the handler
    attempt,      \* loop variable of executeWithRetry
    lastError,    \* local lastError of executeWithRetry
    delayMs,      \* delay the executor is currently waiting for (0 when none)
    request,      \* the HTTP request the operation issues (method, path, payload)
    httpCount,    \* number of HTTP requests issued by this invocation
    delays,       \* number of backoff delays waited by this invocation
    received,     \* the answer the latest attempt received
    first,        \* what the first attempt received: none, 401, 429, other
    allRetryable, \* every attempt so far failed without response or with 500/502/503/504
    outcome,      \* what the handler's promise settled to: envelope or raised error
    reply,        \* what the protocol layer answers: none, content, McpError
    remote,       \* answer of the remote service to the next request
    baseUrlEnv,   \* process.env.REMOTE_BASE_URL: "" (unset or empty) or "set"
    apiKeyEnv,    \* process.env.REMOTE_API_KEY: "" (unset or empty) or "set"
    probed,       \* the start-up check of the remote service has issued a request
    urlIn,        \* a string handed to normalizeUrl
    urlOnce,      \* normalizeUrl(urlIn), once computed
    urlTwice,     \* normalizeUrl(urlOnce), once computed
    urlCalls,     \* number of normalizeUrl calls made on urlIn so far
    retryDelay,   \* DEFAULT_CONFIG.RETRY_DELAY, read once from the environment
    calls         \* concurrent invocations of executeWithRetry, by invocation id

\* the process's configuration and start-up
startVars == <<baseUrlEnv, apiKeyEnv, probed>>
\* a caller of normalizeUrl
urlVars == <<urlIn, urlOnce, urlTwice, urlCalls>>

\* the executor called by several invocations at once
execVars == <<retryDelay, calls>>

vars == <<maxRetries, pc, tool, args, attempt, lastError, delayMs, request,
          httpCount, delays, received, first, allRetryable, outcome, reply, remote,
          startVars, urlVars, execVars>>

----------------------------------------------------------------------------
(* Bounds of the model and constants of the program *)

MaxRetriesLimit == 3     \* largest MAX_RETRIES explored
RETRY_DELAY == 1000
MAX_DELAY == 30000
MaxUrls == 50
DefaultPage == 1
DefaultPageSize == 10
MaxPageSize == 100

\* MAX_RETRIES is parsed from the environment without a range check: -1 stands
\* for every value below 0 (and for NaN), for which the retry loop never runs
RetryValues == -1..MaxRetriesLimit

----------------------------------------------------------------------------
(* Error codes (ErrorCodes) *)

ErrorCodes == {"NETWORK_ERROR", "TIMEOUT_ERROR", "CONNECTION_ERROR",
               "AUTHENTICATION_ERROR", "AUTHORIZATION_ERROR", "INVALID_API_KEY",
               "VALIDATION_ERROR", "MISSING_PARAMETER", "INVALID_PARAMETER",
               "RESOURCE_NOT_FOUND", "RESOURCE_ALREADY_EXISTS", "OPERATION_NOT_ALLOWED",
               "QUOTA_EXCEEDED", "INTERNAL_SERVER_ERROR", "SERVICE_UNAVAILABLE",
               "RATE_LIMIT_EXCEEDED", "CONFIGURATION_ERROR", "MISSING_CONFIG",
               "UNKNOWN_ERROR"}

----------------------------------------------------------------------------
(* Answers of the remote service to one HTTP request.                      *)
(*   kind        "noresp": no response received; "http": a response        *)
(*   status      HTTP status (0 when no response)                          *)
(*   errCode     error.code set by the transport when there is no response *)
(*   timeoutMsg  the transport's message contains "timeout"                *)
(*   bodyObj     the response body is a JSON object                        *)
(*   code        the envelope's code                                       *)
(*   data        the envelope's data: "null", "obj" (an object), or        *)
(*               "partial" (an object with a success and a failed list)    *)
(*   bodyDetails the body carries a details field                          *)

Resp(kind, status, errCode, timeoutMsg, bodyObj, code, data, bodyDetails) ==
    [kind |-> kind, status |-> status, errCode |-> errCode, timeoutMsg |-> timeoutMsg,
     bodyObj |-> bodyObj, code |-> code, data |-> data, bodyDetails |-> bodyDetails]

TransportCodes == {"ECONNABORTED", "ECONNREFUSED", "ENOTFOUND", "ERR_NETWORK"}
NoResponses ==
    {Resp("noresp", 0, c, c = "ECONNABORTED", FALSE, 0, "null", FALSE) : c \in TransportCodes}

ErrorStatuses == {400, 401, 403, 404, 409, 418, 429, 500, 501, 502, 503, 504, 505}
ErrorResponses ==
    {Resp("http", s, "", FALSE, TRUE, s, "null", FALSE) : s \in ErrorStatuses}
    \cup {Resp("http", 400, "", FALSE, TRUE, 400, "null", TRUE)}

EnvelopeCodes == {0, 400, 401, 403, 404, 409, 429, 500, 1001}
OkResponses ==
    {Resp("http", 200, "", FALSE, TRUE, 0, d, FALSE) : d \in {"null", "obj", "partial"}}
    \cup {Resp("http", 200, "", FALSE, TRUE, c, "null", FALSE) : c \in EnvelopeCodes \ {0}}
    \cup {Resp("http", 304, "", FALSE, FALSE, 0, "null", FALSE)}

Responses == NoResponses \cup ErrorResponses \cup OkResponses
NoAnswer == Resp("none", 0, "", FALSE, FALSE, 0, "null", FALSE)

\* validateStatus of createAxiosInstance: 2xx and 3xx resolve, the rest reject
validateStatus(status) == status >= 200 /\ status < 400

----------------------------------------------------------------------------
(* JavaScript error values.  Every error is a record of the same shape:    *)
(*   cls         constructor: AxiosError, Error, TypeError, CustomError,   *)
(*               or undefined (the value undefined, thrown)                *)
(*   name        error.name                                                *)
(*   hasResp     error.response is set                                     *)
(*   status      error.response.status (0 when there is no response)       *)
(*   code        error.code                                                *)
(*   timeoutMsg  error.message contains "timeout"                          *)
(*   isJoi       error.isJoi                                               *)
(*   bodyDetails error.response.data.details is set                        *)
(*   paramsId    error.config.params.id ("undefined" when not set)         *)
(*   details     error.details: tag names the fields it holds, id the      *)
(*               resource id in it, n the number of per-field entries      *)

Details(tag, id, n) == [tag |-> tag, id |-> id, n |-> n]
NoDetails == Details("undefined", "undefined", 0)
NullDetails == Details("null", "undefined", 0)

JsError(cls, name, hasResp, status, code, timeoutMsg, bodyDetails, paramsId, details) ==
    [cls |-> cls, name |-> name, hasResp |-> hasResp, status |-> status, code |-> code,
     timeoutMsg |-> timeoutMsg, isJoi |-> FALSE, bodyDetails |-> bodyDetails,
     paramsId |-> paramsId, details |-> details]

Undefined == JsError("undefined", "", FALSE, 0, "", FALSE, FALSE, "undefined", NoDetails)
PlainError(what) == JsError("Error", what, FALSE, 0, "", FALSE, FALSE, "undefined", NoDetails)
TypeErrorOf(what) ==
    JsError("TypeError", what, FALSE, 0, "", FALSE, FALSE, "undefined", NoDetails)

\* the error axios rejects with for answer r to a request whose params.id is paramsId
AxiosError(r, paramsId) ==
    JsError("AxiosError", "AxiosError", r.kind = "http", r.status, r.errCode,
            r.timeoutMsg, r.bodyDetails, paramsId, NoDetails)

\* class CustomError and its subclasses
CustomError(name, code, details) ==
    JsError("CustomError", name, FALSE, 0, code, FALSE, FALSE, "undefined", details)
ValidationError(details) == CustomError("ValidationError", "VALIDATION_ERROR", details)
NetworkError == CustomError("NetworkError", "NETWORK_ERROR", Details("originalError", "undefined", 0))
AuthenticationError == CustomError("AuthenticationError", "AUTHENTICATION_ERROR", NullDetails)
NotFoundError(id) ==
    CustomError("NotFoundError", "RESOURCE_NOT_FOUND", Details("resource,id", id, 0))
BusinessError(code) == CustomError("BusinessError", code, NullDetails)

----------------------------------------------------------------------------
(* Error classifier: ErrorAnalyzer and ErrorHandler *)

\* analyzeHttpError whose server-error case lists 500 only
analyzeHttpError_Only500(error) ==
    IF ~error.hasResp THEN CustomError("NetworkError", "NETWORK_ERROR",
                                       Details("originalError", "undefined", 0))
    ELSE CASE error.status = 400 ->
                CustomError("ValidationError", "VALIDATION_ERROR", NullDetails)
           [] error.status = 401 -> AuthenticationError
           [] error.status = 403 -> BusinessError("AUTHORIZATION_ERROR")
           [] error.status = 404 -> NotFoundError(error.paramsId)
           [] error.status = 409 -> BusinessError("RESOURCE_ALREADY_EXISTS")
           [] error.status = 429 -> BusinessError("RATE_LIMIT_EXCEEDED")
           [] error.status = 500 ->
                CustomError("CustomError", "INTERNAL_SERVER_ERROR", NullDetails)
           [] OTHER -> CustomError("CustomError", "UNKNOWN_ERROR", NullDetails)

\* ErrorAnalyzer.analyzeHttpError
analyzeHttpError(error) ==
    IF ~error.hasResp
    THEN \* the three branches differ in the message only
         IF error.code = "ECONNABORTED" \/ error.timeoutMsg THEN NetworkError
         ELSE IF error.code = "ENOTFOUND" \/ error.code = "ECONNREFUSED" THEN NetworkError
         ELSE NetworkError
    ELSE CASE error.status = 400 ->
                ValidationError(IF error.bodyDetails
                                THEN Details("remote", "undefined", 0)
                                ELSE NullDetails)
           [] error.status = 401 -> AuthenticationError
           [] error.status = 403 -> BusinessError("AUTHORIZATION_ERROR")
           [] error.status = 404 -> NotFoundError(error.paramsId)
           [] error.status = 409 -> BusinessError("RESOURCE_ALREADY_EXISTS")
           [] error.status = 429 -> BusinessError("RATE_LIMIT_EXCEEDED")
           [] error.status \in {500, 502, 503, 504} ->
                CustomError("CustomError", "INTERNAL_SERVER_ERROR", NullDetails)
           [] OTHER -> CustomError("CustomError", "UNKNOWN_ERROR", NullDetails)

\* ErrorAnalyzer.analyzeValidationError
analyzeValidationError(error) == ValidationError(Details("fields", "undefined", error.details.n))

\* ErrorAnalyzer.analyzeConfigError
analyzeConfigError(error) ==
    CustomError("CustomError", "CONFIGURATION_ERROR", Details("originalError", "undefined", 0))

\* ErrorAnalyzer.analyzeUnknownError
analyzeUnknownError(error) ==
    CustomError("CustomError", "UNKNOWN_ERROR", Details("originalError,stack", "undefined", 0))

\* ErrorHandler.handle.  Its first statement reads error.message, so it throws
\* a TypeError itself when the value caught is undefined.
handle(error) ==
    IF error.cls = "undefined" THEN TypeErrorOf("read of undefined")
    ELSE IF error.hasResp THEN analyzeHttpError(error)
    ELSE IF error.isJoi THEN analyzeValidationError(error)
    ELSE IF error.code = "MISSING_CONFIG" THEN analyzeConfigError(error)
    ELSE IF error.cls = "CustomError" THEN error
    ELSE analyzeUnknownError(error)

\* ErrorHandler.isRetryable
isRetryable(error) ==
    error.code \in {"NETWORK_ERROR", "TIMEOUT_ERROR", "CONNECTION_ERROR",
                    "INTERNAL_SERVER_ERROR", "SERVICE_UNAVAILABLE"}

----------------------------------------------------------------------------
(* Tool result envelopes *)

NoEnvelope == [settled |-> "none"]

\* createMcpErrorResponse that also fills a data field
createMcpErrorResponse_WithData(error) ==
    [success |-> FALSE, data |-> "null",
     error |-> [code |-> error.code, message |-> "message", details |-> error.details,
                timestamp |-> "timestamp"]]

\* ErrorHandler.createMcpErrorResponse
createMcpErrorResponse(error) ==
    [success |-> FALSE,
     error |-> [code |-> error.code, message |-> "message", details |-> error.details,
                timestamp |-> "timestamp"]]

\* ErrorHandler.createSuccessResponse
createSuccessResponse(data) == [success |-> TRUE, data |-> data]

----------------------------------------------------------------------------
(* Tool arguments.  A URL is a sequence of tokens: a scheme token          *)
(* ("https://"), a host token ("foo.com") or a blank (" ").  A numeric     *)
(* field is [kind, v]: absent, an integer v, a fraction v + 1/2, or a      *)
(* string that is no number.                                               *)

Tools == {"create_short_url", "get_url_info", "list_short_urls", "delete_short_url",
          "batch_create_short_urls", "list_domains"}

Absent == [kind |-> "absent", v |-> 0]
IntOf(v) == [kind |-> "int", v |-> v]
FracOf(v) == [kind |-> "frac", v |-> v]
NotANumber == [kind |-> "str", v |-> 0]

Repeat(n, x) == [i \in 1..n |-> x]
GoodUrl == <<"https://", "foo.com">>

NoArgs ==
    [given |-> TRUE, original_url |-> <<>>, domain |-> "absent", title |-> "absent",
     id |-> Absent, page |-> Absent, page_size |-> Absent,
     urls |-> [present |-> FALSE, items |-> <<>>]]
UndefinedArgs == [NoArgs EXCEPT !.given = FALSE]

UrlInputs == {<<>>, <<"foo.com">>, GoodUrl, <<"ftp://", "foo.com">>}
DomainInputs == {"absent", "dwz.test"}
TitleInputs == {"absent", "T"}
IdInputs == {Absent, IntOf(7), IntOf(0), IntOf(-1), FracOf(1), NotANumber}
PageInputs == {Absent, IntOf(0), IntOf(2)}
PageSizeInputs == {Absent, IntOf(0), IntOf(MaxPageSize), IntOf(MaxPageSize + 1)}
UrlsInputs ==
    {[present |-> FALSE, items |-> <<>>]}
    \cup {[present |-> TRUE, items |-> l] :
            l \in {<<>>, <<GoodUrl>>, <<GoodUrl, <<"foo.com">>>>,
                   Repeat(MaxUrls, GoodUrl), Repeat(MaxUrls + 1, GoodUrl)}}

ArgsOf(t) ==
    {UndefinedArgs} \cup
    CASE t = "create_short_url" ->
           {[NoArgs EXCEPT !.original_url = u, !.domain = d, !.title = ti] :
              u \in UrlInputs, d \in DomainInputs, ti \in TitleInputs}
      [] t \in {"get_url_info", "delete_short_url"} ->
           {[NoArgs EXCEPT !.id = i] : i \in IdInputs}
      [] t = "list_short_urls" ->
           {[NoArgs EXCEPT !.page = p, !.page_size = ps] :
              p \in PageInputs, ps \in PageSizeInputs}
      [] t = "batch_create_short_urls" ->
           {[NoArgs EXCEPT !.urls = us, !.domain = d] :
              us \in UrlsInputs, d \in DomainInputs}
      [] OTHER -> {NoArgs}

----------------------------------------------------------------------------
(* Validation (validation.js) *)

Schemes == {"http://", "https://", "HTTP://", "ftp://"}

\* Joi.string().uri(): an absolute URI, scheme first, no blanks
IsUri(u) ==
    /\ Len(u) >= 2
    /\ u[1] \in Schemes
    /\ \A i \in 2..Len(u) : u[i] \notin Schemes /\ u[i] # " "

\* commonRules.url: one error when the field is missing, empty or no URI
urlErrors(field, u) == IF IsUri(u) THEN <<>> ELSE <<field>>

\* commonRules.domain.required() of createShortUrl and batchCreateShortUrls
domainErrors(d) == IF d = "dwz.test" THEN <<>> ELSE <<"domain">>

\* commonRules.title
titleErrors(t) == IF t = "T" THEN <<>> ELSE <<"title">>

\* commonRules.id: number, integer, positive, required
idErrors(id) ==
    CASE id.kind = "absent" -> <<"id">>
      [] id.kind = "str" -> <<"id">>
      [] id.kind = "frac" -> <<"id">> \o (IF id.v < 0 THEN <<"id">> ELSE <<>>)
      [] OTHER -> IF id.v > 0 THEN <<>> ELSE <<"id">>

\* commonRules.page: integer, min 1
pageErrors(p) ==
    IF p.kind = "absent" \/ (p.kind = "int" /\ p.v >= 1) THEN <<>> ELSE <<"page">>

\* commonRules.pageSize: integer, min 1, max 100
pageSizeErrors(ps) ==
    IF ps.kind = "absent" \/ (ps.kind = "int" /\ ps.v >= 1 /\ ps.v <= MaxPageSize)
    THEN <<>> ELSE <<"page_size">>

RECURSIVE itemErrors(_)
itemErrors(items) ==
    IF items = <<>> THEN <<>>
    ELSE urlErrors("urls.item", Head(items)) \o itemErrors(Tail(items))

\* commonRules.urls: array of URIs, min 1, max 50, required
urlsErrors(us) ==
    IF ~us.present THEN <<"urls">>
    ELSE itemErrors(us.items)
         \o (IF Len(us.items) < 1 \/ Len(us.items) > MaxUrls THEN <<"urls">> ELSE <<>>)

\* schemas[schemaName].validate(data): the fields in error, in schema order.
\* An undefined value passes every object schema (the object is not required).
schemaErrors(schemaName, data) ==
    IF ~data.given THEN <<>>
    ELSE CASE schemaName = "createShortUrl" ->
                urlErrors("original_url", data.original_url)
                \o domainErrors(data.domain) \o titleErrors(data.title)
           [] schemaName \in {"getUrlInfo", "deleteShortUrl"} -> idErrors(data.id)
           [] schemaName = "batchCreateShortUrls" ->
                urlsErrors(data.urls) \o domainErrors(data.domain)
           [] schemaName = "listShortUrls" ->
                pageErrors(data.page) \o pageSizeErrors(data.page_size)
           [] OTHER -> <<>>

\* the value Joi returns: defaults filled in for page and page_size
schemaValue(schemaName, data) ==
    IF data.given /\ schemaName = "listShortUrls"
    THEN [data EXCEPT
            !.page = IF data.page.kind = "absent" THEN IntOf(DefaultPage) ELSE @,
            !.page_size = IF data.page_size.kind = "absent" THEN IntOf(DefaultPageSize) ELSE @]
    ELSE data

\* validate
validate(schemaName, data) ==
    LET errors == schemaErrors(schemaName, data) IN
    IF errors # <<>>
    THEN [isValid |-> FALSE, errors |-> errors, data |-> UndefinedArgs]
    ELSE [isValid |-> TRUE, errors |-> <<>>, data |-> schemaValue(schemaName, data)]

\* validateOrThrow that forgets to throw and returns result.data
validateOrThrow_NoThrow(schemaName, data) ==
    [threw |-> FALSE, error |-> Undefined, data |-> validate(schemaName, data).data]

\* validateOrThrow: throws a plain Error carrying only the joined messages
validateOrThrow(schemaName, data) ==
    LET result == validate(schemaName, data) IN
    IF ~result.isValid
    THEN [threw |-> TRUE, error |-> PlainError("validation"), data |-> UndefinedArgs]
    ELSE [threw |-> FALSE, error |-> Undefined, data |-> result.data]

RECURSIVE trimLeft(_)
trimLeft(u) == IF u # <<>> /\ Head(u) = " " THEN trimLeft(Tail(u)) ELSE u
RECURSIVE trimRight(_)
trimRight(u) ==
    IF u # <<>> /\ u[Len(u)] = " " THEN trimRight(SubSeq(u, 1, Len(u) - 1)) ELSE u

\* the scheme tokens /^https?:\/\//i matches
HttpSchemes == {"http://", "https://", "HTTP://"}

\* normalizeUrl that prepends https:// without looking at the scheme
normalizeUrl_AlwaysPrepends(url) ==
    IF url = <<>> THEN url ELSE <<"https://">> \o trimRight(trimLeft(url))

\* normalizeUrl
normalizeUrl(url) ==
    IF url = <<>> THEN url
    ELSE LET t == trimRight(trimLeft(url)) IN
         IF t # <<>> /\ t[1] \in HttpSchemes THEN t ELSE <<"https://">> \o t

\* normalizePaginationParams counting pages from 0
normalizePaginationParams_ZeroBased(params) ==
    LET max(a, b) == IF a > b THEN a ELSE b
        min(a, b) == IF a < b THEN a ELSE b
        p == IF params.page.kind = "absent" \/ params.page.v = 0
             THEN DefaultPage ELSE params.page.v
        s == IF params.page_size.kind = "absent" \/ params.page_size.v = 0
             THEN DefaultPageSize ELSE params.page_size.v
    IN [page |-> max(0, p - 1), page_size |-> min(MaxPageSize, max(1, s))]

\* normalizePaginationParams
normalizePaginationParams(params) ==
    LET max(a, b) == IF a > b THEN a ELSE b
        min(a, b) == IF a < b THEN a ELSE b
        p == IF params.page.kind = "absent" \/ params.page.v = 0
             THEN DefaultPage ELSE params.page.v
        s == IF params.page_size.kind = "absent" \/ params.page_size.v = 0
             THEN DefaultPageSize ELSE params.page_size.v
    IN [page |-> max(1, p), page_size |-> min(MaxPageSize, max(1, s))]

----------------------------------------------------------------------------
(* HTTP client (httpClient.js) *)

\* hundredths drawn by Math.random() in getExponentialBackoffDelay
RandomDraws == {0, 99}

\* getExponentialBackoffDelay without the ceiling
getExponentialBackoffDelay_NoCeiling(attemptNumber, baseDelay, rand) ==
    LET exponentialDelay == baseDelay * 2^(attemptNumber - 1)
    IN exponentialDelay + (rand * exponentialDelay) \div 1000

\* getExponentialBackoffDelay, with the random draw rand/100 made explicit
getExponentialBackoffDelay(attemptNumber, baseDelay, rand) ==
    LET exponentialDelay == baseDelay * 2^(attemptNumber - 1)
        jitter == (rand * exponentialDelay) \div 1000
        sum == exponentialDelay + jitter
    IN IF sum < MAX_DELAY THEN sum ELSE MAX_DELAY

\* shouldNotRetry sparing 429 from the 4xx rule
shouldNotRetry_Spare429(error) ==
    \/ error.hasResp /\ error.status = 401
    \/ error.hasResp /\ error.status >= 400 /\ error.status < 500 /\ error.status # 429

\* shouldNotRetry without its test for 401 and with 4xx starting above it
shouldNotRetry_Skip401(error) ==
    error.hasResp /\ error.status > 401 /\ error.status < 500

\* shouldNotRetry
shouldNotRetry(error) ==
    \/ error.hasResp /\ error.status = 401
    \/ error.hasResp /\ error.status >= 400 /\ error.status < 500

\* loop condition of executeWithRetry: attempt <= maxRetries + 1
loopRuns(att, retries) == att <= retries + 1

\* the last-attempt test never holds: the loop ends by its own condition
isLastAttempt_Never(att, retries) == FALSE

\* the last-attempt test holds one attempt late
isLastAttempt_OneLate(att, retries) == att > retries + 1

\* isLastAttempt with the comparison off by one
isLastAttempt_OffByOne(att, retries) == att >= retries

\* "last attempt" test of executeWithRetry: attempt > maxRetries
isLastAttempt(att, retries) == att > retries

NoRequest ==
    [method |-> "none", path |-> "", id |-> 0, urls |-> <<>>, page |-> 0, page_size |-> 0,
     paramsId |-> "undefined"]

\* the request HttpClient.get/post/delete hands to axios; no caller puts an id
\* into the query parameters, the id travels in the path
Request(method, path, id, urls, page, page_size) ==
    [method |-> method, path |-> path, id |-> id, urls |-> urls, page |-> page,
     page_size |-> page_size, paramsId |-> "undefined"]

----------------------------------------------------------------------------
(* Service operations (ShortLinkService) *)

Threw(error) == [threw |-> TRUE, error |-> error, request |-> NoRequest]
Issues(req) == [threw |-> FALSE, error |-> Undefined, request |-> req]

RECURSIVE normalizeAll(_)
normalizeAll(items) ==
    IF items = <<>> THEN <<>> ELSE <<normalizeUrl(Head(items))>> \o normalizeAll(Tail(items))

\* the part of a service operation that runs before its HTTP call: validation,
\* normalisation and the request built, or the error thrown inside its try
serviceRequest(t, a) ==
    CASE t = "create_short_url" ->
           LET v == validateOrThrow("createShortUrl", a) IN
           IF v.threw THEN Threw(v.error)
           ELSE IF ~v.data.given THEN Threw(TypeErrorOf("read of undefined"))
           ELSE Issues(Request("POST", "/shortlinks", 0,
                               <<normalizeUrl(v.data.original_url)>>, 0, 0))
      [] t = "get_url_info" ->
           LET v == validateOrThrow("getUrlInfo", [NoArgs EXCEPT !.id = a.id]) IN
           IF v.threw THEN Threw(v.error)
           ELSE Issues(Request("GET", "/shortlinks/id", a.id.v, <<>>, 0, 0))
      [] t = "delete_short_url" ->
           LET v == validateOrThrow("deleteShortUrl", [NoArgs EXCEPT !.id = a.id]) IN
           IF v.threw THEN Threw(v.error)
           ELSE Issues(Request("DELETE", "/shortlinks/id", a.id.v, <<>>, 0, 0))
      [] t = "batch_create_short_urls" ->
           LET v == validateOrThrow("batchCreateShortUrls", a) IN
           IF v.threw THEN Threw(v.error)
           ELSE IF ~v.data.given THEN Threw(TypeErrorOf("read of undefined"))
           ELSE Issues(Request("POST", "/shortlinks/batch", 0,
                               normalizeAll(v.data.urls.items), 0, 0))
      [] t = "list_short_urls" ->
           \* the default parameter turns undefined into {}
           LET v == validateOrThrow("listShortUrls", [a EXCEPT !.given = TRUE]) IN
           IF v.threw THEN Threw(v.error)
           ELSE LET pg == normalizePaginationParams(v.data) IN
                Issues(Request("GET", "/short_links", 0, <<>>, pg.page, pg.page_size))
      [] OTHER -> Issues(Request("GET", "/domains", 0, <<>>, 0, 0))

\* mapApiErrorCode whose table lacks the entry for 429
mapApiErrorCode_No429(apiCode) ==
    CASE apiCode = 400 -> "VALIDATION_ERROR"
      [] apiCode = 401 -> "AUTHENTICATION_ERROR"
      [] apiCode = 403 -> "AUTHORIZATION_ERROR"
      [] apiCode = 404 -> "RESOURCE_NOT_FOUND"
      [] apiCode = 409 -> "RESOURCE_ALREADY_EXISTS"
      [] apiCode = 500 -> "INTERNAL_SERVER_ERROR"
      [] OTHER -> "UNKNOWN_ERROR"

\* mapApiErrorCode
mapApiErrorCode(apiCode) ==
    CASE apiCode = 400 -> "VALIDATION_ERROR"
      [] apiCode = 401 -> "AUTHENTICATION_ERROR"
      [] apiCode = 403 -> "AUTHORIZATION_ERROR"
      [] apiCode = 404 -> "RESOURCE_NOT_FOUND"
      [] apiCode = 409 -> "RESOURCE_ALREADY_EXISTS"
      [] apiCode = 429 -> "RATE_LIMIT_EXCEEDED"
      [] apiCode = 500 -> "INTERNAL_SERVER_ERROR"
      [] OTHER -> "UNKNOWN_ERROR"

Value(v) == [threw |-> FALSE, error |-> Undefined, value |-> v]
Thrown(error) == [threw |-> TRUE, error |-> error, value |-> "undefined"]

\* handleApiResponse
handleApiResponse(response) ==
    IF ~response.bodyObj THEN Thrown(BusinessError("OPERATION_NOT_ALLOWED"))
    ELSE IF response.code # 0 THEN Thrown(BusinessError(mapApiErrorCode(response.code)))
    ELSE IF response.data = "null" THEN Value("null")
    ELSE Value(response.data)

\* serviceResult treating a reported failed list as a failure of the operation
serviceResult_FailsOnPartial(t, response) ==
    LET r == handleApiResponse(response) IN
    IF r.threw THEN r
    ELSE IF r.value = "null" /\ t # "delete_short_url"
         THEN Thrown(TypeErrorOf("read of null"))
    ELSE IF r.value = "partial" THEN Thrown(BusinessError("OPERATION_NOT_ALLOWED"))
    ELSE r

\* the part of a service operation that runs after its HTTP call resolved:
\* unwrap the envelope, then log fields of the result (a read of null throws)
serviceResult(t, response) ==
    LET r == handleApiResponse(response) IN
    IF r.threw THEN r
    ELSE IF r.value = "null" /\ t # "delete_short_url"
         THEN Thrown(TypeErrorOf("read of null"))
    ELSE r

\* catch block of every service operation: throw ErrorHandler.handle(error)
serviceCatch(error) == handle(error)

----------------------------------------------------------------------------
(* Tool handlers (mcp/tools) and the protocol layer (mcp/server.js) *)

\* the handler throws before it reaches asyncWrapper: batch_create_short_urls
\* logs args.urls.length first
handlerThrowsEarly(t, a) ==
    t = "batch_create_short_urls" /\ (~a.given \/ ~a.urls.present)

\* the wrapped function throws before it reaches the service: args.id
wrappedThrowsEarly(t, a) ==
    t \in {"get_url_info", "delete_short_url"} /\ ~a.given

\* the lists of a batch result: result.success || [], result.failed || []
\* (a list is told by its length)
batchLists(value) ==
    IF value = "partial" THEN [success |-> 1, failed |-> 1] ELSE [success |-> 0, failed |-> 0]

\* the object the wrapped function returns on success
formatResult(t, a, value) ==
    [success |-> TRUE, message |-> "message",
     data |-> CASE t = "delete_short_url" -> [fields |-> "id,deleted"]
                [] t = "batch_create_short_urls" ->
                     [fields |-> "success,failed,summary",
                      success |-> batchLists(value).success,
                      failed |-> batchLists(value).failed,
                      total |-> Len(a.urls.items)]
                [] OTHER -> [fields |-> value],
     meta |-> IF t = "list_short_urls"
              THEN [operation |-> t, timestamp |-> "timestamp", filters |-> "filters"]
              ELSE [operation |-> t, timestamp |-> "timestamp"]]

Returned(envelope) == [settled |-> "returned", envelope |-> envelope, error |-> Undefined]
Raised(error) == [settled |-> "raised", envelope |-> NoEnvelope, error |-> error]
Pending == [settled |-> "none", envelope |-> NoEnvelope, error |-> Undefined]

\* ErrorHandler.asyncWrapper, for a wrapped function that returned or threw
asyncWrapper(r) ==
    IF ~r.threw THEN Returned(createSuccessResponse(r.value))
    ELSE IF r.error.cls = "undefined" THEN Raised(handle(r.error))
    ELSE Returned(createMcpErrorResponse(handle(r.error)))

\* the CallTool request handler of McpShortLinkServer.setupRequestHandlers
serverReply(o) == IF o.settled = "returned" THEN "content" ELSE "McpError"

----------------------------------------------------------------------------
(* The state machine *)

\* how the claims tell first answers apart
FirstOf(r) ==
    IF r.kind = "http" /\ r.status = 401 THEN "401"
    ELSE IF r.kind = "http" /\ r.status = 429 THEN "429"
    ELSE "other"

IsRetryableAnswer(r) == r.kind = "noresp" \/ r.status \in {500, 502, 503, 504}

Init ==
    /\ maxRetries \in RetryValues
    /\ pc = "idle"
    /\ tool = "none"
    /\ args = NoArgs
    /\ attempt = 0
    /\ lastError = Undefined
    /\ delayMs = 0
    /\ request = NoRequest
    /\ httpCount = 0
    /\ delays = 0
    /\ received = NoAnswer
    /\ first = "none"
    /\ allRetryable = TRUE
    /\ outcome = Pending
    /\ reply = "none"
    /\ remote \in Responses
    /\ baseUrlEnv = "set"
    /\ apiKeyEnv = "set"
    /\ probed = (maxRetries >= 0)
    /\ urlIn = <<>>
    /\ urlOnce = <<>>
    /\ urlTwice = <<>>
    /\ urlCalls = 0
    /\ retryDelay = RETRY_DELAY
    /\ calls = <<>>

\* Init is the serving process: the configuration was complete, the server
\* was constructed and started (StartServer, CheckRemoteService below).

\* the invocation ends: the handler's promise settles to o and the protocol
\* layer answers (the CallTool request handler awaits the tool's handler)
Settle(o) ==
    /\ pc' = "done"
    /\ outcome' = o
    /\ reply' = serverReply(o)
    /\ lastError' = Undefined   \* the locals of executeWithRetry are gone
    /\ delayMs' = 0

\* A CallTool request for tool t with arguments a arrives: the handler runs up
\* to its first suspension, the first HTTP attempt of executeWithRetry.
CallTool(t, a) ==
    /\ pc = "idle"
    /\ tool' = t
    /\ args' = a
    /\ UNCHANGED <<maxRetries, remote, received, first, allRetryable, delays,
                   startVars, urlVars, execVars>>
    /\ IF handlerThrowsEarly(t, a)
       THEN /\ Settle(Raised(TypeErrorOf("read of undefined")))
            /\ UNCHANGED <<attempt, request, httpCount>>
       ELSE IF wrappedThrowsEarly(t, a)
       THEN /\ Settle(asyncWrapper(Thrown(TypeErrorOf("read of undefined"))))
            /\ UNCHANGED <<attempt, request, httpCount>>
       ELSE LET s == serviceRequest(t, a) IN
            IF s.threw
            THEN /\ Settle(asyncWrapper(Thrown(serviceCatch(s.error))))
                 /\ UNCHANGED <<attempt, request, httpCount>>
            ELSE /\ request' = s.request
                 /\ attempt' = 1
                 /\ IF loopRuns(1, maxRetries)
                    THEN /\ pc' = "inflight"
                         /\ httpCount' = httpCount + 1
                         /\ UNCHANGED <<outcome, reply, lastError, delayMs>>
                    ELSE \* the loop body never runs: throw lastError
                         /\ Settle(asyncWrapper(Thrown(serviceCatch(lastError))))
                         /\ UNCHANGED httpCount

\* AttemptResolves that does not wait for the delay: the next attempt is issued
\* as soon as the failed one resolves
AttemptResolves_NoWait ==
    /\ pc = "inflight"
    /\ received' = remote
    /\ first' = IF first # "none" THEN first ELSE FirstOf(remote)
    /\ allRetryable' = (allRetryable /\ IsRetryableAnswer(remote))
    /\ UNCHANGED <<maxRetries, tool, args, request, startVars, urlVars, execVars>>
    /\ IF remote.kind = "http" /\ validateStatus(remote.status)
       THEN LET r == serviceResult(tool, remote) IN
            /\ Settle(asyncWrapper(
                  IF r.threw THEN Thrown(serviceCatch(r.error))
                  ELSE Value(formatResult(tool, args, r.value))))
            /\ UNCHANGED <<delays, remote, attempt, httpCount>>
       ELSE LET error == AxiosError(remote, request.paramsId) IN
            /\ remote' \in Responses
            /\ IF isLastAttempt(attempt, maxRetries) \/ shouldNotRetry(error)
               THEN /\ Settle(asyncWrapper(Thrown(serviceCatch(error))))
                    /\ UNCHANGED <<delays, attempt, httpCount>>
               ELSE /\ lastError' = error
                    /\ \E rand \in RandomDraws :
                         delayMs' = getExponentialBackoffDelay(attempt, retryDelay, rand)
                    /\ delays' = delays + 1
                    /\ attempt' = attempt + 1
                    /\ httpCount' = httpCount + 1
                    /\ pc' = "inflight"
                    /\ UNCHANGED <<outcome, reply>>

\* The HTTP attempt in flight resolves with the remote's answer: the body of
\* the loop of executeWithRetry, and on its exit the rest of the service
\* operation, of asyncWrapper and of the protocol layer's handler.
AttemptResolves ==
    /\ pc = "inflight"
    /\ received' = remote
    /\ first' = IF first # "none" THEN first ELSE FirstOf(remote)
    /\ allRetryable' = (allRetryable /\ IsRetryableAnswer(remote))
    /\ UNCHANGED <<maxRetries, tool, args, attempt, request, httpCount,
                   startVars, urlVars, execVars>>
    /\ IF remote.kind = "http" /\ validateStatus(remote.status)
       THEN LET r == serviceResult(tool, remote) IN
            /\ Settle(asyncWrapper(
                  IF r.threw THEN Thrown(serviceCatch(r.error))
                  ELSE Value(formatResult(tool, args, r.value))))
            /\ UNCHANGED <<delays, remote>>
       ELSE LET error == AxiosError(remote, request.paramsId) IN
            /\ remote' \in Responses   \* what the remote would answer to a retry
            /\ IF isLastAttempt(attempt, maxRetries) \/ shouldNotRetry(error)
               THEN /\ Settle(asyncWrapper(Thrown(serviceCatch(error))))
                    /\ UNCHANGED delays
               ELSE /\ lastError' = error
                    /\ \E rand \in RandomDraws :
                         delayMs' = getExponentialBackoffDelay(attempt, retryDelay, rand)
                    /\ delays' = delays + 1
                    /\ pc' = "backoff"
                    /\ UNCHANGED <<outcome, reply>>

\* The backoff delay elapses: attempt++ and the next attempt is issued.
DelayElapses ==
    /\ pc = "backoff"
    /\ attempt' = attempt + 1
    /\ UNCHANGED <<maxRetries, tool, args, request, received, first, allRetryable,
                   delays, remote, startVars, urlVars, execVars>>
    /\ IF loopRuns(attempt + 1, maxRetries)
       THEN /\ pc' = "inflight"
            /\ httpCount' = httpCount + 1
            /\ delayMs' = 0
            /\ UNCHANGED <<outcome, reply, lastError>>
       ELSE /\ Settle(asyncWrapper(Thrown(serviceCatch(lastError))))
            /\ UNCHANGED httpCount

Next ==
    \/ \E t \in Tools : \E a \in ArgsOf(t) : CallTool(t, a)
    \/ AttemptResolves
    \/ DelayElapses

Spec == Init /\ [][Next]_vars

\* no invocation is under way
NoInvocation ==
    /\ tool = "none"
    /\ args = NoArgs
    /\ attempt = 0
    /\ lastError = Undefined
    /\ delayMs = 0
    /\ request = NoRequest
    /\ httpCount = 0
    /\ delays = 0
    /\ received = NoAnswer
    /\ first = "none"
    /\ allRetryable = TRUE
    /\ outcome = Pending
    /\ reply = "none"

invocationVars == <<tool, args, attempt, lastError, delayMs, request, httpCount, delays,
                    received, first, allRetryable, outcome, reply>>

----------------------------------------------------------------------------
(* Start-up of the process: configuration, construction, start *)

MaxStartupRetries == 1     \* largest MAX_RETRIES explored across a start-up

\* an environment variable as `process.env.X || fallback` sees it: "" stands
\* for unset and for empty
EnvValues == {"", "set"}

\* DEFAULT_CONFIG.REMOTE_BASE_URL and DEFAULT_CONFIG.REMOTE_API_KEY
REMOTE_BASE_URL == IF baseUrlEnv = "" THEN "https://api.example.com" ELSE baseUrlEnv
REMOTE_API_KEY == IF apiKeyEnv = "" THEN "" ELSE apiKeyEnv

\* validateConfig: both required keys of DEFAULT_CONFIG are truthy
validateConfig == REMOTE_BASE_URL # "" /\ REMOTE_API_KEY # ""

InitStartup ==
    /\ maxRetries \in -1..MaxStartupRetries
    /\ pc = "boot"
    /\ NoInvocation
    /\ remote \in Responses
    /\ baseUrlEnv \in EnvValues
    /\ apiKeyEnv \in EnvValues
    /\ probed = FALSE
    /\ urlIn = <<>>
    /\ urlOnce = <<>>
    /\ urlTwice = <<>>
    /\ urlCalls = 0
    /\ retryDelay = RETRY_DELAY
    /\ calls = <<>>

\* The modules load and the server is constructed: the ShortLinkService
\* constructor, main and initializeServer each call validateConfig and give up
\* when it fails.
StartServer ==
    /\ pc = "boot"
    /\ pc' = IF validateConfig THEN "starting" ELSE "refused"
    /\ UNCHANGED <<maxRetries, invocationVars, remote, startVars, urlVars, execVars>>

\* start(): checkRemoteService lists one short URL through the retrying
\* executor (at least one request unless the retry loop never runs), whatever
\* comes of it the transport is connected and tool calls are served.
CheckRemoteService ==
    /\ pc = "starting"
    /\ probed' = loopRuns(1, maxRetries)
    /\ IF probed' THEN remote' \in Responses ELSE remote' = remote
    /\ pc' = "idle"
    /\ UNCHANGED <<maxRetries, invocationVars, baseUrlEnv, apiKeyEnv, urlVars, execVars>>

NextStartup ==
    \/ StartServer
    \/ CheckRemoteService
    \/ \E t \in Tools : \E a \in ArgsOf(t) : CallTool(t, a)
    \/ AttemptResolves
    \/ DelayElapses

SpecStartup == InitStartup /\ [][NextStartup]_vars

----------------------------------------------------------------------------
(* normalizeUrl called on its own, twice in a row, on any string *)

MaxUrlLen == 3     \* longest string handed to normalizeUrl, in tokens

\* the tokens strings are made of: a blank, schemes and a host
UrlTokens == {" ", "http://", "HTTP://", "ftp://", "example.com"}
UrlStrings == UNION {[1..n -> UrlTokens] : n \in 0..MaxUrlLen}

InitNormalize ==
    /\ maxRetries = MaxRetriesLimit
    /\ pc = "library"
    /\ NoInvocation
    /\ remote = NoAnswer
    /\ baseUrlEnv = "set"
    /\ apiKeyEnv = "set"
    /\ probed = FALSE
    /\ urlIn \in UrlStrings
    /\ urlOnce = <<>>
    /\ urlTwice = <<>>
    /\ urlCalls = 0
    /\ retryDelay = RETRY_DELAY
    /\ calls = <<>>

\* url = normalizeUrl(url)
NormalizeOnce ==
    /\ urlCalls = 0
    /\ urlOnce' = normalizeUrl(urlIn)
    /\ urlCalls' = 1
    /\ UNCHANGED <<maxRetries, pc, invocationVars, remote, startVars, urlIn, urlTwice,
                   execVars>>

\* and once more on the result
NormalizeAgain ==
    /\ urlCalls = 1
    /\ urlTwice' = normalizeUrl(urlOnce)
    /\ urlCalls' = 2
    /\ UNCHANGED <<maxRetries, pc, invocationVars, remote, startVars, urlIn, urlOnce,
                   execVars>>

NextNormalize ==
    \/ NormalizeOnce
    \/ NormalizeAgain

SpecNormalize == InitNormalize /\ [][NextNormalize]_vars

----------------------------------------------------------------------------
(* executeWithRetry called by several invocations at once: the handlers are *)
(* async functions, so the invocations interleave at every await.  Each     *)
(* invocation is a record of the locals of its call:                        *)
(*   pc         "idle", "inflight" (awaiting requestFn), "backoff" (awaiting*)
(*              delay), "returned" or "raised"                              *)
(*   attempt    the loop variable                                           *)
(*   lastError  the answer behind the last error caught                     *)
(*   delayMs    the delay being awaited                                     *)
(*   delayArgs  the attempt numbers handed to getExponentialBackoffDelay    *)
(*   hist       the answers its own attempts resolved with, in order        *)
(*   result     the answer behind the value returned or the error raised    *)

MaxInvocations == 2     \* invocations in flight together
Invocations == 1..MaxInvocations

\* values of RETRY_DELAY explored
BaseDelays == {0, 1000, 20000}

\* what an attempt resolves with: a response, a timeout and a 404
ExecAnswers ==
    {r \in Responses :
        \/ r.kind = "noresp" /\ r.errCode = "ECONNABORTED"
        \/ r.kind = "http" /\ r.status = 404 /\ ~r.bodyDetails
        \/ r.kind = "http" /\ r.status = 200 /\ r.code = 0 /\ r.data = "obj"}

NewCall ==
    [pc |-> "idle", attempt |-> 0, lastError |-> NoAnswer, delayMs |-> 0,
     delayArgs |-> <<>>, hist |-> <<>>, result |-> NoAnswer]

\* the loop variable of every invocation is one shared counter
attemptOf_Shared(cs, i) ==
    CHOOSE a \in {cs[j].attempt : j \in DOMAIN cs} :
        \A j \in DOMAIN cs : cs[j].attempt <= a

\* `let attempt`: the loop variable of invocation i is a local of its call
attemptOf(cs, i) == cs[i].attempt

InitConcurrent ==
    /\ maxRetries \in RetryValues
    /\ pc = "concurrent"
    /\ NoInvocation
    /\ remote = NoAnswer
    /\ baseUrlEnv = "set"
    /\ apiKeyEnv = "set"
    /\ probed = FALSE
    /\ urlIn = <<>>
    /\ urlOnce = <<>>
    /\ urlTwice = <<>>
    /\ urlCalls = 0
    /\ retryDelay \in BaseDelays
    /\ calls = [i \in Invocations |-> NewCall]

concurrentFrame ==
    UNCHANGED <<maxRetries, pc, invocationVars, remote, startVars, urlVars, retryDelay>>

\* executeWithRetry is entered: the options are read and the loop starts
Invoke(i) ==
    /\ pc = "concurrent"
    /\ calls[i].pc = "idle"
    /\ calls' = [calls EXCEPT ![i] =
                   IF loopRuns(1, maxRetries)
                   THEN [@ EXCEPT !.pc = "inflight", !.attempt = 1]
                   ELSE [@ EXCEPT !.pc = "raised", !.attempt = 1]]
    /\ concurrentFrame

\* the attempt of invocation i resolves with answer r
ResolveAttempt(i, r) ==
    /\ pc = "concurrent"
    /\ calls[i].pc = "inflight"
    /\ LET c == [calls[i] EXCEPT !.hist = Append(@, r)]
           att == attemptOf(calls, i)
       IN IF r.kind = "http" /\ validateStatus(r.status)
          THEN calls' = [calls EXCEPT ![i] = [c EXCEPT !.pc = "returned", !.result = r]]
          ELSE IF isLastAttempt(att, maxRetries) \/ shouldNotRetry(AxiosError(r, "undefined"))
          THEN calls' = [calls EXCEPT ![i] =
                           [c EXCEPT !.pc = "raised", !.lastError = r, !.result = r]]
          ELSE \E rand \in RandomDraws :
                 calls' = [calls EXCEPT ![i] =
                             [c EXCEPT !.pc = "backoff", !.lastError = r,
                                       !.delayArgs = Append(@, att),
                                       !.delayMs = getExponentialBackoffDelay(
                                                       att, retryDelay, rand)]]
    /\ concurrentFrame

\* the delay of invocation i resolves: the loop goes round
DelayElapsed(i) ==
    /\ pc = "concurrent"
    /\ calls[i].pc = "backoff"
    /\ LET att == attemptOf(calls, i) + 1
       IN calls' = [calls EXCEPT ![i] =
                      IF loopRuns(att, maxRetries)
                      THEN [@ EXCEPT !.pc = "inflight", !.attempt = att, !.delayMs = 0]
                      ELSE [@ EXCEPT !.pc = "raised", !.attempt = att, !.delayMs = 0,
                                     !.result = @.lastError]]
    /\ concurrentFrame

NextConcurrent ==
    \/ \E i \in Invocations : Invoke(i)
    \/ \E i \in Invocations : \E r \in ExecAnswers : ResolveAttempt(i, r)
    \/ \E i \in Invocations : DelayElapsed(i)

SpecConcurrent == InitConcurrent /\ [][NextConcurrent]_vars

\* Every attempt resolves (the request has a timeout) and every timer set by
\* delay fires: the event loop runs each continuation that is ready.
SpecConcurrentFair ==
    /\ SpecConcurrent
    /\ \A i \in Invocations :
          /\ WF_vars(\E r \in ExecAnswers : ResolveAttempt(i, r))
          /\ WF_vars(DelayElapsed(i))

----------------------------------------------------------------------------
(* Properties *)

Done == pc = "done"
ReturnedEnvelope == outcome.settled = "returned"
ErrorEnvelope == ReturnedEnvelope /\ ~outcome.envelope.success
SuccessEnvelope == ReturnedEnvelope /\ outcome.envelope.success
ErrorCodeIs(code) == ErrorEnvelope /\ outcome.envelope.error.code = code

\* C1: every tool handler ends by returning an envelope, whatever the
\* arguments and the remote do; it never raises to the protocol layer.
C1_NeverRaises == Done => (ReturnedEnvelope /\ reply = "content")

\* C2: with maxRetries >= 0, an invocation whose attempts all fail with a
\* retryable failure (no response, or 500/502/503/504) issues exactly
\* maxRetries + 1 requests and then ends in an error, never in a result; while
\* it runs it has issued at most maxRetries + 1.
C2_RetryCeiling ==
    (maxRetries >= 0 /\ httpCount >= 1 /\ allRetryable) =>
        /\ httpCount <= maxRetries + 1
        /\ Done => (httpCount = maxRetries + 1 /\ delays = maxRetries /\ ErrorEnvelope)

C2_Witness ==
    Done /\ maxRetries = 3 /\ allRetryable /\ httpCount = 4 /\ ErrorEnvelope

\* C3: an attempt that receives 401 is the invocation's last, whatever
\* maxRetries is, and the envelope's error is AUTHENTICATION_ERROR; when it is
\* the first attempt, exactly 1 request was issued and no delay was waited.
C3_NoRetryOn401 ==
    /\ (received.kind = "http" /\ received.status = 401) =>
          (Done /\ ErrorCodeIs("AUTHENTICATION_ERROR"))
    /\ first = "401" => (Done /\ httpCount = 1 /\ delays = 0)

C3_Witness ==
    first = "401" /\ maxRetries = 3 /\ Done /\ ErrorCodeIs("AUTHENTICATION_ERROR")

\* a 2xx answer whose envelope reports success and carries data
Is2xxOk(r) == r.kind = "http" /\ r.status = 200 /\ r.bodyObj /\ r.code = 0 /\ r.data = "obj"

C5_EnvelopeShape ==
    ReturnedEnvelope =>
        LET e == outcome.envelope IN
        IF e.success
        THEN "data" \in DOMAIN e /\ "error" \notin DOMAIN e
        ELSE "error" \in DOMAIN e /\ "data" \notin DOMAIN e

C5_Witness ==
    /\ ErrorEnvelope /\ maxRetries >= 1 /\ httpCount = maxRetries + 1
    /\ "error" \in DOMAIN outcome.envelope

\* the validation schema each tool's service operation uses
SchemaOf(t) ==
    CASE t = "create_short_url" -> "createShortUrl"
      [] t = "get_url_info" -> "getUrlInfo"
      [] t = "delete_short_url" -> "deleteShortUrl"
      [] t = "batch_create_short_urls" -> "batchCreateShortUrls"
      [] t = "list_short_urls" -> "listShortUrls"
      [] OTHER -> "none"

\* the invocation's arguments fail the shape validation of its operation
InputInvalid == tool \in Tools /\ args.given /\ schemaErrors(SchemaOf(tool), args) # <<>>

C7_ValidationErrorEnvelope ==
    (Done /\ InputInvalid /\ ReturnedEnvelope) =>
        /\ ErrorCodeIs("VALIDATION_ERROR")
        /\ outcome.envelope.error.details.n = Len(schemaErrors(SchemaOf(tool), args))

\* the code the claim expects for a failure without response
TransportCodeOf(r) ==
    IF r.errCode = "ECONNABORTED" \/ r.timeoutMsg THEN "TIMEOUT_ERROR"
    ELSE IF r.errCode \in {"ECONNREFUSED", "ENOTFOUND"} THEN "CONNECTION_ERROR"
    ELSE "NETWORK_ERROR"

\* C8: an invocation whose last attempt got no response reports TIMEOUT_ERROR
\* for a timeout, CONNECTION_ERROR for a refused connection or an unresolvable
\* host, NETWORK_ERROR for anything else.
C8_TransportKinds ==
    (Done /\ ReturnedEnvelope /\ received.kind = "noresp") =>
        ErrorCodeIs(TransportCodeOf(received))

\* the code the claim gives each HTTP error status
StatusCodeOf(status) ==
    CASE status = 400 -> "VALIDATION_ERROR"
      [] status = 401 -> "AUTHENTICATION_ERROR"
      [] status = 403 -> "AUTHORIZATION_ERROR"
      [] status = 404 -> "RESOURCE_NOT_FOUND"
      [] status = 409 -> "RESOURCE_ALREADY_EXISTS"
      [] status = 429 -> "RATE_LIMIT_EXCEEDED"
      [] status \in {500, 502, 503, 504} -> "INTERNAL_SERVER_ERROR"
      [] OTHER -> "UNKNOWN_ERROR"

\* C9: when an invocation ends on an HTTP error response, the code of the
\* error in its envelope is the one the table gives for the status.
C9_StatusDecidesCode ==
    (Done /\ received.kind = "http" /\ ~validateStatus(received.status)) =>
        ErrorCodeIs(StatusCodeOf(received.status))

C9_Witness ==
    Done /\ received.kind = "http" /\ received.status = 503
         /\ ErrorCodeIs("INTERNAL_SERVER_ERROR")

KnownStatuses == {400, 401, 403, 404, 409, 429, 500, 502, 503, 504}

\* C10: an attempt that receives an error status outside the known ones (501,
\* 505) is the invocation's last, and the error is UNKNOWN_ERROR.
C10_UnknownStatusNotRetried ==
    (received.kind = "http" /\ ~validateStatus(received.status)
        /\ received.status \notin KnownStatuses) =>
    (Done /\ ErrorCodeIs("UNKNOWN_ERROR"))

\* a 2xx/3xx answer whose body is an envelope reporting a business failure
IsBusinessFailure(r) ==
    r.kind = "http" /\ validateStatus(r.status) /\ r.bodyObj /\ r.code # 0

\* the code the claim gives each non-zero envelope code
BusinessCodeOf(code) ==
    CASE code = 400 -> "VALIDATION_ERROR"
      [] code = 401 -> "AUTHENTICATION_ERROR"
      [] code = 403 -> "AUTHORIZATION_ERROR"
      [] code = 404 -> "RESOURCE_NOT_FOUND"
      [] code = 409 -> "RESOURCE_ALREADY_EXISTS"
      [] code = 429 -> "RATE_LIMIT_EXCEEDED"
      [] code = 500 -> "INTERNAL_SERVER_ERROR"
      [] OTHER -> "UNKNOWN_ERROR"

\* C11: an attempt answered by a 2xx/3xx response whose envelope code is not 0
\* ends the invocation at once (the request is not issued again) with an error
\* envelope whose code is the table's entry for the envelope code; when that
\* answer came to the first attempt, exactly one request was issued.
C11_BusinessErrorOnce ==
    IsBusinessFailure(received) =>
        /\ Done
        /\ ErrorCodeIs(BusinessCodeOf(received.code))
        /\ httpCount = delays + 1
        /\ (delays = 0 => httpCount = 1)

\* a 200 whose envelope says 429 ended the invocation after one request, even
\* though retries were allowed
C11_Witness ==
    /\ Done /\ maxRetries >= 1
    /\ IsBusinessFailure(received) /\ received.code = 429
    /\ ErrorCodeIs("RATE_LIMIT_EXCEEDED")
    /\ httpCount = 1 /\ delays = 0

\* a 2xx/3xx answer whose body is an envelope with code 0
IsEnvelopeOk(r) == r.kind = "http" /\ validateStatus(r.status) /\ r.bodyObj /\ r.code = 0

\* C12: an invocation whose last attempt received an envelope with code 0 ends
\* with a success envelope, for every tool, also when the envelope's data is
\* null or absent.
C12_CodeZeroSucceeds == (Done /\ IsEnvelopeOk(received)) => SuccessEnvelope

\* C13: create_short_url called with the scheme-less original_url "foo.com"
\* (domain and title valid) issues a POST carrying "https://foo.com", and
\* batch_create_short_urls does the same for every URL of its list.
C13_SchemelessUrlAccepted ==
    /\ (/\ tool = "create_short_url" /\ args.given
         /\ args.original_url = <<"foo.com">>
         /\ args.domain = "dwz.test" /\ args.title = "T")
        => (request.method = "POST" /\ request.urls = <<GoodUrl>>)
    /\ (/\ tool = "batch_create_short_urls" /\ args.given
         /\ args.urls = [present |-> TRUE, items |-> <<GoodUrl, <<"foo.com">>>>]
         /\ args.domain = "dwz.test")
        => (request.method = "POST" /\ request.urls = <<GoodUrl, GoodUrl>>)

\* C15: every GET issued by list_short_urls carries a page of at least 1 and a
\* page_size within 1..100, and page = 1, page_size = 10 when the call gave
\* neither (or no arguments at all).
C15_PaginationDefaults ==
    (tool = "list_short_urls" /\ httpCount >= 1) =>
        /\ request.method = "GET"
        /\ request.page >= 1
        /\ request.page_size >= 1 /\ request.page_size <= 100
        /\ (~args.given \/ (args.page = Absent /\ args.page_size = Absent))
             => (request.page = 1 /\ request.page_size = 10)
        /\ (args.given /\ args.page = IntOf(2)) => request.page = 2
        /\ (args.given /\ args.page_size = IntOf(100)) => request.page_size = 100

\* list_short_urls called with {} has its GET answered
C15_Witness ==
    /\ tool = "list_short_urls" /\ args = NoArgs
    /\ Done /\ httpCount = 1 /\ SuccessEnvelope
    /\ request.method = "GET" /\ request.page = 1 /\ request.page_size = 10

\* error.details holds a stack trace
HasStack(details) == details.tag = "originalError,stack"

\* C16: no error envelope carries a stack trace in its details, whatever the
\* failure was.
C16_NoStackInEnvelope == ErrorEnvelope => ~HasStack(outcome.envelope.error.details)

\* C17: a batch_create_short_urls whose POST is answered by an envelope with
\* code 0 reporting failed items ends at once with a success envelope carrying
\* the success list and the failed list; the POST is not issued again.
C17_PartialFailureIsSuccess ==
    (tool = "batch_create_short_urls" /\ IsEnvelopeOk(received)
        /\ received.data = "partial") =>
        /\ Done /\ SuccessEnvelope
        /\ outcome.envelope.data.data.success = 1
        /\ outcome.envelope.data.data.failed = 1
        /\ request.method = "POST"
        /\ httpCount = delays + 1
        /\ (delays = 0 => httpCount = 1)

\* a full batch posted once, part of it reported as failed
C17_Witness ==
    /\ tool = "batch_create_short_urls" /\ Len(args.urls.items) = MaxUrls
    /\ Done /\ SuccessEnvelope /\ received.data = "partial"
    /\ outcome.envelope.data.data.total = MaxUrls
    /\ outcome.envelope.data.data.failed = 1
    /\ maxRetries >= 1 /\ httpCount = 1

\* C18: a process whose base URL or API key is not configured, or is empty,
\* never starts: it stays before or at the refusal, serves no tool call and
\* issues no HTTP request.
C18_RefusesWithoutConfig ==
    (baseUrlEnv = "" \/ apiKeyEnv = "") =>
        /\ pc \in {"boot", "refused"}
        /\ ~probed
        /\ httpCount = 0
        /\ reply = "none"

\* C19: the object a tool call returns has the README's format: success, message,
\* data and meta (operation, timestamp) at its top level when it succeeded;
\* success and error (code, message, details, timestamp) when it failed.
C19_ReadmeFormat ==
    ReturnedEnvelope =>
        IF outcome.envelope.success
        THEN /\ DOMAIN outcome.envelope = {"success", "message", "data", "meta"}
             /\ {"operation", "timestamp"} \subseteq DOMAIN outcome.envelope.meta
        ELSE /\ DOMAIN outcome.envelope = {"success", "error"}
             /\ DOMAIN outcome.envelope.error = {"code", "message", "details", "timestamp"}

\* C20: a get_url_info or delete_short_url for id X whose attempt receives
\* HTTP 404 ends at once (no retry) with RESOURCE_NOT_FOUND, and the details of
\* the error carry X as the resource id.
C20_NotFoundCarriesId ==
    (tool \in {"get_url_info", "delete_short_url"}
        /\ received.kind = "http" /\ received.status = 404) =>
        /\ Done
        /\ ErrorCodeIs("RESOURCE_NOT_FOUND")
        /\ httpCount = delays + 1
        /\ outcome.envelope.error.details.id # "undefined"
        /\ outcome.envelope.error.details.id = args.id.v

\* an attempt is issued by this step
IssuesAttempt == httpCount' = httpCount + 1

\* C21: the attempts of an invocation are sequential.  While attempt N is in
\* flight N requests have been issued and N - 1 delays begun; while the delay
\* after attempt N runs, attempt N has failed and request N + 1 has not been
\* issued; a request is issued only by the call itself or by the end of a
\* delay, one at a time, so no two attempts are ever in flight together.
C21_SequentialAttempts ==
    /\ [](pc = "inflight" => (httpCount = attempt /\ delays = attempt - 1))
    /\ [](pc = "backoff" =>
            /\ httpCount = attempt /\ delays = attempt
            /\ ~(received.kind = "http" /\ validateStatus(received.status))
            /\ lastError = AxiosError(received, request.paramsId))
    /\ [][/\ httpCount' \in {httpCount, httpCount + 1}
          /\ IssuesAttempt =>
                /\ pc' = "inflight"
                /\ \/ pc = "idle" /\ attempt' = 1
                   \/ pc = "backoff" /\ attempt' = attempt + 1]_vars

\* the third attempt is in flight after two failures and two delays
C21_Witness ==
    pc = "inflight" /\ attempt = 3 /\ httpCount = 3 /\ delays = 2

Min(a, b) == IF a <= b THEN a ELSE b

\* C22: every delay awaited lies between min(b * 2^(a-1), 30000) and
\* min(1.1 * b * 2^(a-1), 30000), where b is the base delay and a the number
\* of the attempt that failed; the k-th delay of an invocation uses a = k, so
\* the delay after the first failed attempt uses a = 1.
C22_BackoffBounds ==
    pc = "concurrent" =>
        \A i \in Invocations :
            calls[i].pc = "backoff" =>
                LET a == Len(calls[i].delayArgs)
                    e == retryDelay * 2^(a - 1)
                IN /\ a >= 1
                   /\ calls[i].delayArgs[a] = a
                   /\ calls[i].delayMs >= Min(e, MAX_DELAY)
                   /\ 10 * calls[i].delayMs <= Min(11 * e, 10 * MAX_DELAY)

\* a delay cut at the ceiling, and a first delay with jitter below it
C22_Witness ==
    /\ pc = "concurrent"
    /\ retryDelay = 20000
    /\ calls[1].pc = "backoff" /\ calls[1].delayArgs = <<1, 2>>
    /\ calls[1].delayMs = MAX_DELAY
    /\ calls[2].pc = "backoff" /\ calls[2].delayArgs = <<1>>
    /\ calls[2].delayMs > retryDelay

\* the attempt that answer r resolves is successful
Resolved(r) == r.kind = "http" /\ validateStatus(r.status)

\* the attempt that answer r resolves decides the invocation: it succeeds, it
\* fails with a client error (the failures the executor does not retry), or
\* it is attempt maxRetries + 1
Deciding(r, att) ==
    \/ Resolved(r)
    \/ r.kind = "http" /\ r.status >= 400 /\ r.status < 500
    \/ att = maxRetries + 1

\* what the invocation comes to when its last attempt resolves with r
OutcomeOf(r) ==
    IF Resolved(r)
    THEN LET v == serviceResult(tool, r) IN
         asyncWrapper(IF v.threw THEN Thrown(serviceCatch(v.error))
                      ELSE Value(formatResult(tool, args, v.value)))
    ELSE asyncWrapper(Thrown(serviceCatch(AxiosError(r, request.paramsId))))

RetriedAll(h, n) ==
    \A k \in 1..n : ~Resolved(h[k]) /\ ~shouldNotRetry(AxiosError(h[k], "undefined"))

UpTo(n) == [k \in 1..n |-> k]

\* the locals of a call as they follow from the answers h of its own attempts
\* and from the configuration
OwnState(c) ==
    LET h == c.hist
        n == Len(h)
    IN CASE c.pc = "idle" -> c = NewCall
         [] c.pc = "inflight" ->
              /\ n <= maxRetries /\ RetriedAll(h, n)
              /\ c.attempt = n + 1 /\ c.delayArgs = UpTo(n)
         [] c.pc = "backoff" ->
              /\ n >= 1 /\ n <= maxRetries /\ RetriedAll(h, n)
              /\ c.attempt = n /\ c.delayArgs = UpTo(n) /\ c.lastError = h[n]
         [] c.pc = "returned" ->
              /\ n >= 1 /\ RetriedAll(h, n - 1) /\ Resolved(h[n])
              /\ c.attempt = n /\ c.delayArgs = UpTo(n - 1) /\ c.result = h[n]
         [] c.pc = "raised" ->
              IF n = 0 THEN maxRetries < 0 /\ c.result = NoAnswer
              ELSE /\ RetriedAll(h, n - 1) /\ ~Resolved(h[n])
                   /\ n = maxRetries + 1 \/ shouldNotRetry(AxiosError(h[n], "undefined"))
                   /\ c.attempt = n /\ c.delayArgs = UpTo(n - 1) /\ c.result = h[n]

\* C24: with several invocations in flight the retry state of each is its
\* own: under every interleaving the attempt count, the attempt numbers used
\* for its delays and its outcome follow from the answers to its own attempts
\* and the configuration, a step of one invocation leaves the others as they
\* are, and no step writes the configuration.
C24_PrivateRetryState ==
    /\ [](pc = "concurrent" => \A i \in Invocations : OwnState(calls[i]))
    /\ [][pc = "concurrent" =>
            \A i, j \in Invocations :
                (i # j /\ calls'[i] # calls[i]) => calls'[j] = calls[j]]_vars
    /\ [][maxRetries' = maxRetries /\ retryDelay' = retryDelay]_vars

\* two invocations await their attempts together, one at its third attempt
\* and the other at its first
C24_Witness ==
    /\ pc = "concurrent"
    /\ calls[1].pc = "inflight" /\ calls[1].attempt = 3
    /\ calls[2].pc = "inflight" /\ calls[2].attempt = 1

\* invocation i has returned or raised
Ended(i) == calls[i].pc \in {"returned", "raised"}

\* C25: when every attempt resolves and maxRetries is a non-negative integer,
\* every invocation that was entered eventually returns or raises, and it
\* never makes more than maxRetries + 1 attempts nor begins more than
\* maxRetries delays.
C25_InvocationTerminates ==
    /\ \A i \in Invocations : (calls[i].pc \in {"inflight", "backoff"}) ~> Ended(i)
    /\ [](maxRetries >= 0 =>
            \A i \in Invocations :
                /\ calls[i].attempt <= maxRetries + 1
                /\ Len(calls[i].hist) <= maxRetries + 1
                /\ Len(calls[i].delayArgs) <= maxRetries)

\* an invocation raised after maxRetries + 1 attempts and maxRetries delays
C25_Witness ==
    /\ pc = "concurrent" /\ maxRetries = MaxRetriesLimit
    /\ calls[1].pc = "raised"
    /\ Len(calls[1].hist) = maxRetries + 1
    /\ Len(calls[1].delayArgs) = maxRetries

\* C26: whatever integer maxRetries is, an invocation that ended made at
\* least one attempt, and when it raised, the value raised is the error of one
\* of its attempts, never undefined.
C26_AtLeastOneAttempt ==
    pc = "concurrent" =>
        \A i \in Invocations :
            Ended(i) =>
                /\ Len(calls[i].hist) >= 1
                /\ calls[i].pc = "raised" =>
                      \E k \in 1..Len(calls[i].hist) : calls[i].result = calls[i].hist[k]

\* C27: the executor's retry decision is the classifier's: a failure raised
\* with attempts remaining is followed by a delay and a new request exactly
\* when isRetryable(handle(e)) holds.
C27_RetryAgreesWithClassifier ==
    /\ pc = "backoff" => isRetryable(handle(lastError))
    /\ (Done /\ httpCount >= 1 /\ httpCount <= maxRetries /\ ~Resolved(received)) =>
          ~isRetryable(handle(AxiosError(received, request.paramsId)))

\* the remote cannot have acted on a request that got answer r: the
\* connection was refused or the host was not found
NeverReached(r) == r.kind = "noresp" /\ r.errCode \in {"ECONNREFUSED", "ENOTFOUND"}

\* C28: the remote executes the creation of one create or batch-create
\* invocation at most once: a second POST is in flight only after a failure
\* that shows the remote never got the first (so not after a timeout, a lost
\* response or a 5xx).
C28_CreateAtMostOnce ==
    (request.method = "POST" /\ pc = "inflight" /\ httpCount >= 2) =>
        NeverReached(received)

\* the service operation of the invocation was entered
ServiceEntered == Done /\ ~handlerThrowsEarly(tool, args) /\ ~wrappedThrowsEarly(tool, args)

\* the failure caught by the catch block of the service operation, if any
CaughtByService ==
    LET s == serviceRequest(tool, args) IN
    IF s.threw THEN Thrown(s.error)
    ELSE IF httpCount = 0 THEN Thrown(Undefined)
    ELSE IF Resolved(received) THEN serviceResult(tool, received)
    ELSE Thrown(AxiosError(received, request.paramsId))

\* C29: classifying a classified error changes nothing: for the failure e of
\* a service operation handle(handle(e)) is handle(e), code, message and
\* details, and the code in the tool's envelope is the code of the error the
\* service operation raised.
C29_ClassifyTwiceIsOnce ==
    (ServiceEntered /\ CaughtByService.threw) =>
        LET e == CaughtByService.error IN
        /\ handle(handle(e)) = handle(e)
        /\ ErrorCodeIs(handle(e).code)

\* the URL u as the request must carry it when u has a scheme: trimmed only
SentAsGiven(u, sent) == (u # <<>> /\ u[1] \in Schemes) => sent = trimRight(trimLeft(u))

\* C30: a URL that passed validation and has a scheme, http, https or any
\* other the validation accepts, is in the POST of create and batch-create as
\* it was given apart from trimming.
C30_SchemedUrlUnchanged ==
    /\ (tool = "create_short_url" /\ request.method = "POST" /\ httpCount >= 1) =>
          SentAsGiven(args.original_url, request.urls[1])
    /\ (tool = "batch_create_short_urls" /\ request.method = "POST" /\ httpCount >= 1) =>
          \A k \in 1..Len(args.urls.items) :
              SentAsGiven(args.urls.items[k], request.urls[k])

\* C14: normalizeUrl applied to its own result returns that result, for every
\* string; a host alone gets https:// prepended and an http:// URL is returned
\* as it is.
C14_NormalizeIdempotent ==
    /\ urlCalls = 2 => urlTwice = urlOnce
    /\ (urlCalls >= 1 /\ urlIn = <<"example.com">>)
         => urlOnce = <<"https://", "example.com">>
    /\ (urlCalls >= 1 /\ urlIn = <<"http://", "example.com">>) => urlOnce = urlIn

\* a padded string with a scheme other than http(s), normalised twice
C14_Witness ==
    /\ urlCalls = 2
    /\ urlIn = <<" ", "ftp://", "example.com">>
    /\ urlOnce = <<"https://", "ftp://", "example.com">>
    /\ urlTwice = urlOnce

====
